---------------------------- MODULE Spec2Model ----------------------------
(***************************************************************************)
(* The receipt OCR request handler (/api/receipt-ocr): request validation, *)
(* the single upstream call, the two JSON parses and the normalization of  *)
(* the upstream guess into the receipt that is answered with status 200.   *)
(*                                                                         *)
(* Text is a sequence of one-character strings.  Characters outside ASCII  *)
(* are written by their code point: "U+FF0C" is the full-width comma.      *)
(* A JSON value is a record [t, s, n]: t its type, s its text (strings),   *)
(* n its number (numbers; 1/0 for true/false).  Numbers are integers; the  *)
(* model does not tell -0 from 0.                                          *)
(***************************************************************************)
EXTENDS Integers, Sequences, FiniteSets

(***************************************************************************)
(* Bounds of the enumerated inputs.                                        *)
(***************************************************************************)
MaxLen == 3
MaxItems == 2

(***************************************************************************)
(* JSON values as JavaScript sees them.                                    *)
(***************************************************************************)
Str(s) == [t |-> "str", s |-> s, n |-> 0]
Num(n) == [t |-> "num", s |-> <<>>, n |-> n]
True == [t |-> "bool", s |-> <<>>, n |-> 1]
False == [t |-> "bool", s |-> <<>>, n |-> 0]
Null == [t |-> "null", s |-> <<>>, n |-> 0]
Undefined == [t |-> "undefined", s |-> <<>>, n |-> 0]
EmptyArray == [t |-> "array", s |-> <<>>, n |-> 0]
EmptyObject == [t |-> "object", s |-> <<>>, n |-> 0]

FullWidthComma == "U+FF0C"
DigitChars == <<"0", "1", "2", "3", "4", "5", "6", "7", "8", "9">>
\* The space stands for every white space character parseInt skips.
WhiteSpace == {" "}

IsDigit(c) == \E d \in 1..10 : DigitChars[d] = c
DigitValue(c) == (CHOOSE d \in 1..10 : DigitChars[d] = c) - 1

\* ToBoolean, as applied by ||, && and !.
Truthy(v) ==
  CASE v.t = "str" -> v.s # <<>>
    [] v.t = "num" -> v.n # 0
    [] v.t = "bool" -> v.n = 1
    [] v.t \in {"null", "undefined"} -> FALSE
    [] OTHER -> TRUE

\* a || b
Or(a, b) == IF Truthy(a) THEN a ELSE b

\* Number.prototype.toString of an integer.
RECURSIVE NatToString(_)
NatToString(m) ==
  IF m < 10 THEN <<DigitChars[m + 1]>>
  ELSE Append(NatToString(m \div 10), DigitChars[(m % 10) + 1])

NumberToString(n) == IF n < 0 THEN <<"-">> \o NatToString(-n) ELSE NatToString(n)

\* .toString() of a value that has one (every value but null and undefined).
toString(v) ==
  CASE v.t = "str" -> v.s
    [] v.t = "num" -> NumberToString(v.n)
    [] v.t = "bool" -> IF v.n = 1 THEN <<"t", "r", "u", "e">>
                                  ELSE <<"f", "a", "l", "s", "e">>
    [] v.t = "array" -> <<>>
    [] v.t = "object" -> <<"[", "o", "b", "j", "e", "c", "t", " ",
                           "O", "b", "j", "e", "c", "t", "]">>

\* Number.prototype.toLocaleString('ja-JP') of an integer: groups of three
\* digits separated by ASCII commas, a leading minus sign when negative.
Pad3(m) ==
  <<DigitChars[(m \div 100) + 1], DigitChars[((m \div 10) % 10) + 1],
    DigitChars[(m % 10) + 1]>>

RECURSIVE GroupDigits(_)
GroupDigits(m) ==
  IF m < 1000 THEN NatToString(m)
  ELSE GroupDigits(m \div 1000) \o <<",">> \o Pad3(m % 1000)

toLocaleString(n) == IF n < 0 THEN <<"-">> \o GroupDigits(-n) ELSE GroupDigits(n)

\* .replace(/[,，]/g, ''): every ASCII and full-width comma removed.
IsComma(c) == c \in {",", FullWidthComma}
NotComma(c) == ~IsComma(c)
\* A replace that knows the ASCII comma only.
IsAsciiComma(c) == c = ","
NotAsciiComma(c) == ~IsAsciiComma(c)
StripAsciiCommas(s) == SelectSeq(s, NotAsciiComma)

StripCommas(s) == SelectSeq(s, NotComma)

\* parseInt(s, 10): leading white space skipped, an optional sign, then the
\* longest run of decimal digits; NaN when that run is empty.
RECURSIVE SkipWhiteSpace(_)
SkipWhiteSpace(s) ==
  IF s # <<>> /\ Head(s) \in WhiteSpace THEN SkipWhiteSpace(Tail(s)) ELSE s

RECURSIVE DigitRun(_, _, _)
DigitRun(s, acc, seen) ==
  IF s # <<>> /\ IsDigit(Head(s))
    THEN DigitRun(Tail(s), acc * 10 + DigitValue(Head(s)), TRUE)
    ELSE [nan |-> ~seen, n |-> acc]

parseInt(s) ==
  LET t == SkipWhiteSpace(s)
      signed == t # <<>> /\ Head(t) \in {"-", "+"}
      r == DigitRun(IF signed THEN Tail(t) ELSE t, 0, FALSE)
  IN IF signed /\ Head(t) = "-" THEN [nan |-> r.nan, n |-> -r.n] ELSE r

isNaN(p) == p.nan

(***************************************************************************)
(* The values the upstream content can parse to.  A value with properties  *)
(* carries them as fields; reading a property of a primitive or an array   *)
(* that lacks it gives undefined, so their fields are Undefined.           *)
(***************************************************************************)
NoItems == [t |-> "undefined", elems |-> <<>>]
Array(elems) == [t |-> "array", elems |-> elems]

Receipt(storeName, date, total, categoryId, items) ==
  [t |-> "object", s |-> <<>>, n |-> 0, storeName |-> storeName, date |-> date,
   total |-> total, categoryId |-> categoryId, items |-> items]

Primitive(v) ==
  [t |-> v.t, s |-> v.s, n |-> v.n, storeName |-> Undefined, date |-> Undefined,
   total |-> Undefined, categoryId |-> Undefined, items |-> NoItems]

Item(name, price, categoryId) ==
  [t |-> "object", s |-> <<>>, n |-> 0, name |-> name, price |-> price,
   categoryId |-> categoryId]

PrimitiveItem(v) ==
  [t |-> v.t, s |-> v.s, n |-> v.n, name |-> Undefined, price |-> Undefined,
   categoryId |-> Undefined]

(***************************************************************************)
(* The normalization block of the handler.                                 *)
(***************************************************************************)
food == <<"f", "o", "o", "d">>
transport == <<"t", "r", "a", "n", "s", "p", "o", "r", "t">>
daily == <<"d", "a", "i", "l", "y">>
entertainment == <<"e", "n", "t", "e", "r", "t", "a", "i", "n", "m", "e", "n", "t">>
medical == <<"m", "e", "d", "i", "c", "a", "l">>
education == <<"e", "d", "u", "c", "a", "t", "i", "o", "n">>
other == <<"o", "t", "h", "e", "r">>

\* A category name outside the list.
sports == <<"s", "p", "o", "r", "t", "s">>

\* The literal list the receipt category is looked up in.
CategoryList == {food, transport, daily, entertainment, medical, education, other}

\* Array.prototype.includes: strict equality with one of the strings.
Includes(v) == v.t = "str" /\ v.s \in CategoryList

\* The placeholder store name and the placeholder item name, by code point.
UnknownStoreName == <<"U+5E97", "U+8217", "U+540D", "U+4E0D", "U+660E">>
PlaceholderItemName == <<"U+5546", "U+54C1">>

\* (v || '0').toString().replace(/[,，]/g, '')
RawAmount(v) == StripCommas(toString(Or(v, Str(<<"0">>))))

\* isNaN(parseInt(raw, 10)) ? 0 : parseInt(raw, 10)
Amount(v) ==
  LET raw == RawAmount(v)
  IN IF isNaN(parseInt(raw)) THEN 0 ELSE parseInt(raw).n

safeStoreName(data) == Or(data.storeName, Str(UnknownStoreName))

\* now: the text the clock formats to when the date is missing.
safeDate(data, now) == Or(data.date, Str(now))

numericTotal(data) == Amount(data.total)

\* Array.isArray(data.items) ? data.items : []
items(data) == IF data.items.t = "array" THEN data.items.elems ELSE <<>>

\* A filter that keeps every item that is not null.
AnyItem(item) == Truthy(item)

\* (item) => item && item.name
HasName(item) == Truthy(item) /\ Truthy(item.name)

filteredItems(data) == SelectSeq(items(data), HasName)

itemPrice(item) == Amount(item.price)

\* The receipt category tried before the item's own.
receiptCategoryFirst(item, data) ==
  Or(Or(data.categoryId, item.categoryId), Str(other))

\* item.categoryId || data.categoryId || 'other'
itemCategoryId(item, data) == Or(Or(item.categoryId, data.categoryId), Str(other))

mappedItems(data) ==
  LET kept == filteredItems(data)
  IN [i \in 1..Len(kept) |->
        [name |-> kept[i].name,
         price |-> Str(toLocaleString(itemPrice(kept[i]))),
         categoryId |-> itemCategoryId(kept[i], data)]]

\* The raw category passed through without the membership test.
categoryIdUnchecked(data) == Or(data.categoryId, Str(other))

categoryId(data) ==
  IF Truthy(data.categoryId) /\ Includes(data.categoryId)
    THEN data.categoryId ELSE Str(other)

\* A result without the single-item fallback.
resultWithoutFallback(data, now) ==
  [storeName |-> safeStoreName(data),
   date |-> safeDate(data, now),
   total |-> Str(toLocaleString(numericTotal(data))),
   categoryId |-> categoryId(data),
   items |-> mappedItems(data)]

result(data, now) ==
  LET mapped == mappedItems(data)
  IN [storeName |-> safeStoreName(data),
      date |-> safeDate(data, now),
      total |-> Str(toLocaleString(numericTotal(data))),
      categoryId |-> categoryId(data),
      items |-> IF Len(mapped) > 0 THEN mapped
                ELSE <<[name |-> Str(PlaceholderItemName),
                        price |-> Str(toLocaleString(numericTotal(data))),
                        categoryId |-> categoryId(data)]>>]

\* Reading a property of null throws a TypeError (data.storeName is the first).
Throws(data) == data.t = "null"

(***************************************************************************)
(* The enumerated upstream guesses.                                        *)
(***************************************************************************)
AmountChars == {"0", "7", ",", FullWidthComma, "-", "x"}
AmountTexts == UNION {[1..k -> AmountChars] : k \in 0..MaxLen}

\* The totals the specification names, and white space before a number.
ExampleTexts ==
  {<<"2", ",", "5", "8", "0">>, <<"2", FullWidthComma, "5", "8", "0">>,
   <<"a", "b", "c">>, <<"-", "2", ",", "5", "8", "0">>, <<" ", "7">>,
   <<"1", ",", "2", "3", "4", ",", "5", "6", "7">>}

Scalars ==
  {Undefined, Null, Str(<<>>), Str(<<"S">>), Num(0), Num(5), True, False,
   EmptyArray, EmptyObject}

AmountValues ==
  {Str(s) : s \in AmountTexts \cup ExampleTexts}
    \cup {Undefined, Null, Num(0), Num(2580), Num(-3), True, EmptyArray, EmptyObject}

CategoryValues ==
  {Undefined, Null, Str(<<>>), Str(food), Str(daily), Str(other),
   Str(sports), Num(5), EmptyArray}

NameValues == {Undefined, Str(<<>>), Str(<<"A">>), Str(<<"B">>), Num(0), Num(5)}

ItemValues ==
  {Item(nm, Str(<<"1", "0", "0">>), Undefined) : nm \in NameValues}
    \cup {Item(Str(<<"A">>), Str(<<"5", "0", "0">>), c) :
            c \in {Str(food), Str(sports), Str(<<>>)}}
    \cup {Item(Str(<<"A">>), Str(<<"-", "5">>), Str(food)),
          Item(Str(<<"B">>), Str(<<"1", ",", "0", "0", "0">>), Null)}
    \cup {PrimitiveItem(Null), PrimitiveItem(Str(<<"A">>))}

ItemLists == UNION {[1..k -> ItemValues] : k \in 0..MaxItems}

ItemsValues ==
  {Array(l) : l \in ItemLists} \cup {NoItems, [t |-> "null", elems |-> <<>>]}

OneNamedItem == Array(<<Item(Str(<<"A">>), Str(<<"5", "0", "0">>), Undefined)>>)

RawGuesses ==
  {Receipt(Str(<<"S">>), Str(<<"D">>), a, Str(food), NoItems) : a \in AmountValues}
    \cup {Receipt(Str(<<"S">>), Str(<<"D">>), Str(<<"7">>), Str(daily),
                  Array(<<Item(Str(<<"A">>), a, Undefined)>>)) : a \in AmountValues}
    \cup {Receipt(sn, d, Str(<<"7">>), Str(food), NoItems) :
            sn \in Scalars, d \in Scalars}
    \cup {Receipt(Str(<<"S">>), Str(<<"D">>), Str(<<"7">>), c, i) :
            c \in CategoryValues, i \in {NoItems, OneNamedItem}}
    \cup {Receipt(Undefined, Undefined, ac[1], ac[2], i) :
            ac \in {<<Undefined, Undefined>>,
                    <<Str(<<"2", ",", "5", "8", "0">>), Str(daily)>>,
                    <<Str(<<"-", "7">>), Str(sports)>>},
            i \in ItemsValues}
    \cup {Primitive(v) : v \in {Null, Num(5), Str(<<"S">>), True, EmptyArray}}

ClockTexts == {<<"N", "1">>, <<"N", "2">>}

(***************************************************************************)
(* Requests and upstream answers.                                          *)
(***************************************************************************)
Methods == {"POST", "GET"}

\* req.body: absent, or an object whose imageSrc is the given value.
ImageSrc == Str(<<"d", "a", "t", "a", ":">>)
Bodies == {Undefined, Str(<<>>), Num(5), ImageSrc}

\* What json.choices?.[0]?.message?.content evaluates to, with the value the
\* content denotes when it is JSON text.
Content(t, isJson, value) == [t |-> t, isJson |-> isJson, value |-> value]
NoContent == Content("undefined", FALSE, Primitive(Undefined))
Contents ==
  {NoContent, Content("emptystr", FALSE, Primitive(Undefined)),
   Content("str", FALSE, Primitive(Undefined)),
   Content("object", FALSE, Primitive(Undefined)),
   Content("num", TRUE, Primitive(Num(5)))}
    \cup {Content("str", TRUE, d) : d \in RawGuesses}

ContentTruthy(c) == c.t \notin {"undefined", "emptystr"}

\* The upstream response text: whether it is JSON text, and the value it
\* denotes (null, or a value whose content chain evaluates to content).
Text(isJson, t, content) == [isJson |-> isJson, t |-> t, content |-> content]
Texts ==
  {Text(FALSE, "undefined", NoContent), Text(TRUE, "null", NoContent)}
    \cup {Text(TRUE, "object", c) : c \in Contents}
ErrorTexts == {Text(FALSE, "undefined", NoContent), Text(TRUE, "object", NoContent)}

Statuses == {200, 401, 500}
Ok(status) == status \in 200..299

VARIABLES
  pc,          \* where the handler is
  method,      \* req.method
  apiKey,      \* whether process.env.OPENAI_API_KEY is set
  body,        \* imageSrc of req.body
  fetchCalls,  \* calls of fetch(OPENAI_API_URL) made for this request
  response,    \* the upstream response: [status, text]
  json,        \* JSON.parse(text)
  content,     \* json.choices?.[0]?.message?.content
  data,        \* JSON.parse(content)
  parsed,      \* numericTotal and the itemPrice of each mapped item
  res,         \* the responses sent for this request: [status, error]
  answer       \* the JSON body of the 200 response

vars ==
  <<pc, method, apiKey, body, fetchCalls, response, json, content, data, parsed,
    res, answer>>

NoResponse == [status |-> 0, text |-> Text(FALSE, "undefined", NoContent)]
NoJson == Text(FALSE, "undefined", NoContent)
NoData == Primitive(Undefined)
NoParsed == [numericTotal |-> 0, itemPrices |-> <<>>]
NoAnswer == <<>>

Send(status, error) == res' = Append(res, [status |-> status, error |-> error])

Init ==
  /\ pc = "idle"
  /\ method = "GET"
  /\ apiKey = FALSE
  /\ body = Undefined
  /\ fetchCalls = 0
  /\ response = NoResponse
  /\ json = NoJson
  /\ content = NoContent
  /\ data = NoData
  /\ parsed = NoParsed
  /\ res = <<>>
  /\ answer = NoAnswer

\* The platform invokes the handler with a request.
Request ==
  /\ pc = "idle"
  /\ \E m \in Methods, k \in BOOLEAN, b \in Bodies :
       /\ method' = m
       /\ apiKey' = k
       /\ body' = b
  /\ pc' = "method"
  /\ fetchCalls' = 0
  /\ response' = NoResponse
  /\ json' = NoJson
  /\ content' = NoContent
  /\ data' = NoData
  /\ parsed' = NoParsed
  /\ res' = <<>>
  /\ answer' = NoAnswer

CheckMethod ==
  /\ pc = "method"
  /\ IF method # "POST"
       THEN Send(405, "Method not allowed") /\ pc' = "done"
       ELSE UNCHANGED res /\ pc' = "apiKey"
  /\ UNCHANGED <<method, apiKey, body, fetchCalls, response, json, content,
                 data, parsed, answer>>

CheckApiKey ==
  /\ pc = "apiKey"
  /\ IF ~apiKey
       THEN Send(500, "OPENAI_API_KEY is not set on the server.") /\ pc' = "done"
       ELSE UNCHANGED res /\ pc' = "imageSrc"
  /\ UNCHANGED <<method, apiKey, body, fetchCalls, response, json, content,
                 data, parsed, answer>>

\* The check without the typeof test.
CheckImageSrcAnyType ==
  /\ pc = "imageSrc"
  /\ IF ~Truthy(body)
       THEN Send(400, "imageSrc is required.") /\ pc' = "done"
       ELSE UNCHANGED res /\ pc' = "fetch"
  /\ UNCHANGED <<method, apiKey, body, fetchCalls, response, json, content,
                 data, parsed, answer>>

CheckImageSrc ==
  /\ pc = "imageSrc"
  /\ IF ~Truthy(body) \/ body.t # "str"
       THEN Send(400, "imageSrc is required.") /\ pc' = "done"
       ELSE UNCHANGED res /\ pc' = "fetch"
  /\ UNCHANGED <<method, apiKey, body, fetchCalls, response, json, content,
                 data, parsed, answer>>

\* await fetch(...) and await response.text(): the call is made; it either
\* rejects (the catch answers 500) or yields a status and a text.
CallUpstream ==
  /\ pc = "fetch"
  /\ fetchCalls' = fetchCalls + 1
  /\ \/ /\ Send(500, "error.message")
        /\ pc' = "done"
        /\ UNCHANGED response
     \/ /\ \E st \in Statuses :
             \E tx \in IF Ok(st) THEN Texts ELSE ErrorTexts :
               response' = [status |-> st, text |-> tx]
        /\ pc' = "ok"
        /\ UNCHANGED res
  /\ UNCHANGED <<method, apiKey, body, json, content, data, parsed, answer>>

\* if (!response.ok) { ... res.status(response.status) ... }
CheckOk ==
  /\ pc = "ok"
  /\ IF ~Ok(response.status)
       THEN Send(response.status, "OpenAI API error") /\ pc' = "done"
       ELSE UNCHANGED res /\ pc' = "json"
  /\ UNCHANGED <<method, apiKey, body, fetchCalls, response, json, content,
                 data, parsed, answer>>

\* json = JSON.parse(text)
ParseText ==
  /\ pc = "json"
  /\ IF ~response.text.isJson
       THEN /\ Send(500, "Failed to parse OpenAI JSON response.")
            /\ pc' = "done"
            /\ UNCHANGED json
       ELSE /\ json' = response.text
            /\ pc' = "content"
            /\ UNCHANGED res
  /\ UNCHANGED <<method, apiKey, body, fetchCalls, response, content, data,
                 parsed, answer>>

\* content = json.choices?.[0]?.message?.content; reading choices of null
\* throws, and the catch answers 500.
ReadContent ==
  /\ pc = "content"
  /\ IF json.t = "null"
       THEN /\ Send(500, "error.message")
            /\ pc' = "done"
            /\ UNCHANGED content
       ELSE IF ~ContentTruthy(json.content)
         THEN /\ Send(500, "Unexpected OpenAI response format.")
              /\ pc' = "done"
              /\ content' = json.content
         ELSE /\ content' = json.content
              /\ pc' = "data"
              /\ UNCHANGED res
  /\ UNCHANGED <<method, apiKey, body, fetchCalls, response, json, data,
                 parsed, answer>>

\* data = JSON.parse(content)
ParseContent ==
  /\ pc = "data"
  /\ IF ~content.isJson
       THEN /\ Send(500, "Failed to parse OpenAI content as JSON.")
            /\ pc' = "done"
            /\ UNCHANGED data
       ELSE /\ data' = content.value
            /\ pc' = "normalize"
            /\ UNCHANGED res
  /\ UNCHANGED <<method, apiKey, body, fetchCalls, response, json, content,
                 parsed, answer>>

\* The normalization block and res.status(200).json(result); a throw inside
\* it is answered 500 by the catch.
Normalize ==
  /\ pc = "normalize"
  /\ IF Throws(data)
       THEN /\ Send(500, "error.message")
            /\ UNCHANGED <<parsed, answer>>
       ELSE \E now \in ClockTexts :
              /\ parsed' = [numericTotal |-> numericTotal(data),
                            itemPrices |-> LET kept == filteredItems(data)
                                           IN [i \in 1..Len(kept) |->
                                                 itemPrice(kept[i])]]
              /\ answer' = result(data, now)
              /\ Send(200, "")
  /\ pc' = "done"
  /\ UNCHANGED <<method, apiKey, body, fetchCalls, response, json, content, data>>

Next ==
  \/ Request
  \/ CheckMethod
  \/ CheckApiKey
  \/ CheckImageSrc
  \/ CallUpstream
  \/ CheckOk
  \/ ParseText
  \/ ReadContent
  \/ ParseContent
  \/ Normalize

Spec == Init /\ [][Next]_vars

(***************************************************************************)
(* Properties.                                                             *)
(***************************************************************************)
Answered == pc = "done"
Sent200 == pc = "done" /\ Len(res) = 1 /\ res[1].status = 200

\* Both JSON.parse calls returned: the normalization block was entered.
Normalizing == fetchCalls = 1 /\ ContentTruthy(content) /\ content.isJson

\* The raw item list as the upstream guess gives it.
RawItems == IF data.items.t = "array" THEN data.items.elems ELSE <<>>

\* A raw item has a non-empty name when it is an object whose name is present
\* and is not an empty value ("", or 0 or false for a name that is not text).
NonEmptyName(item) ==
  /\ item.t = "object"
  /\ item.name.t \notin {"undefined", "null"}
  /\ item.name \notin {Str(<<>>), Num(0), False}

NamedRawItems == SelectSeq(RawItems, NonEmptyName)

IsNonEmptyText(v) == v.t = "str" /\ Len(v.s) > 0

\* The integer a text reads as once its commas are gone: white space and a
\* sign skipped, the longest run of digits taken, zero when there is none.
RECURSIVE DecimalValue(_)
DecimalValue(s) ==
  IF s = <<>> THEN 0
  ELSE 10 * DecimalValue(SubSeq(s, 1, Len(s) - 1)) + DigitValue(s[Len(s)])

RECURSIVE WithoutCommas(_)
WithoutCommas(s) ==
  IF s = <<>> THEN <<>>
  ELSE IF Head(s) = "," \/ Head(s) = "U+FF0C" THEN WithoutCommas(Tail(s))
  ELSE <<Head(s)>> \o WithoutCommas(Tail(s))

ReadsAs(s) ==
  LET r == WithoutCommas(s)
      blanks == CHOOSE k \in 0..Len(r) :
                  /\ \A i \in 1..k : r[i] = " "
                  /\ k < Len(r) => r[k + 1] # " "
      signs == IF blanks < Len(r) /\ r[blanks + 1] \in {"-", "+"} THEN 1 ELSE 0
      rest == SubSeq(r, blanks + signs + 1, Len(r))
      run == CHOOSE k \in 0..Len(rest) :
               /\ \A i \in 1..k : IsDigit(rest[i])
               /\ k < Len(rest) => ~IsDigit(rest[k + 1])
      magnitude == DecimalValue(SubSeq(rest, 1, run))
  IN IF signs = 1 /\ r[blanks + 1] = "-" THEN -magnitude ELSE magnitude

IsTextOrMissing(v) == v.t \in {"str", "undefined", "null"}
ExpectedAmount(v) == IF v.t = "str" /\ v.s # <<>> THEN ReadsAs(v.s) ELSE 0

\* C1: once the upstream content has parsed, whatever it parsed to, the
\* handler answers 200 with a normalized receipt.
NormalizationNeverFails ==
  (Answered /\ Normalizing) => (Len(res) = 1 /\ res[1].status = 200)

\* C2: every output item's categoryId is the raw item's categoryId when that
\* is a member of the category list and the receipt-level resolved categoryId
\* otherwise, so it is always a member of the list.
ItemCategoryResolved ==
  (Sent200 /\ Len(NamedRawItems) > 0) =>
    /\ Len(answer.items) = Len(NamedRawItems)
    /\ \A i \in 1..Len(answer.items) :
         /\ answer.items[i].categoryId.t = "str"
         /\ answer.items[i].categoryId.s \in CategoryList
         /\ answer.items[i].categoryId =
              IF Includes(NamedRawItems[i].categoryId)
                THEN NamedRawItems[i].categoryId ELSE answer.categoryId

\* C3: the output item list is never empty, and when no raw item survives the
\* filter it is the single placeholder item carrying the formatted total and
\* the receipt-level resolved categoryId.
ItemListNeverEmpty ==
  Sent200 =>
    /\ Len(answer.items) >= 1
    /\ Len(NamedRawItems) = 0 =>
         answer.items = <<[name |-> Str(PlaceholderItemName),
                           price |-> answer.total,
                           categoryId |-> answer.categoryId]>>

FallbackItemSent ==
  /\ Sent200
  /\ Len(RawItems) >= 1
  /\ Len(NamedRawItems) = 0
  /\ answer.items[1].name = Str(PlaceholderItemName)
  /\ answer.items[1].price = Str(<<"2", ",", "5", "8", "0">>)

\* C4: the total, and each surviving item's price, is the integer its text
\* reads as with every ASCII and full-width comma removed, and zero when the
\* value is missing or its text does not start with a number.
AmountParsed ==
  Sent200 =>
    /\ IsTextOrMissing(data.total) =>
         parsed.numericTotal = ExpectedAmount(data.total)
    /\ Len(parsed.itemPrices) = Len(NamedRawItems)
    /\ \A i \in 1..Len(NamedRawItems) :
         IsTextOrMissing(NamedRawItems[i].price) =>
           parsed.itemPrices[i] = ExpectedAmount(NamedRawItems[i].price)

FullWidthTotalParsed ==
  /\ Sent200
  /\ data.total = Str(<<"2", "U+FF0C", "5", "8", "0">>)
  /\ parsed.numericTotal = 2580

\* C5: the receipt-level categoryId of a 200 response is a member of the
\* category list: the raw categoryId when that is a member, 'other' otherwise.
ReceiptCategoryValid ==
  Sent200 =>
    /\ answer.categoryId.t = "str"
    /\ answer.categoryId.s \in
         {food, transport, daily, entertainment, medical, education, other}
    /\ answer.categoryId =
         IF data.categoryId.t = "str" /\ data.categoryId.s \in
              {food, transport, daily, entertainment, medical, education, other}
           THEN data.categoryId ELSE Str(other)

UnknownCategoryReplaced ==
  /\ Sent200
  /\ data.categoryId = Str(sports)
  /\ answer.categoryId = Str(other)

\* C6: the amount behind the output total and behind every output item price
\* is never negative.
AmountsNonNegative ==
  Sent200 =>
    /\ parsed.numericTotal >= 0
    /\ \A i \in 1..Len(parsed.itemPrices) : parsed.itemPrices[i] >= 0

\* The receipt of the 200 response, read as an upstream guess.
AnswerAsRaw ==
  Receipt(answer.storeName, answer.date, answer.total, answer.categoryId,
          Array([i \in 1..Len(answer.items) |->
                   Item(answer.items[i].name, answer.items[i].price,
                        answer.items[i].categoryId)]))

NamesAreNonEmptyText ==
  Sent200 =>
    /\ IsNonEmptyText(answer.storeName)
    /\ IsNonEmptyText(answer.date)
    /\ \A i \in 1..Len(answer.items) : IsNonEmptyText(answer.items[i].name)

\* C9: when some raw item has a non-empty name, the output items are exactly
\* the raw items with a non-empty name, one each, in their order and with
\* their names unchanged.
NamedItemsKept ==
  (Sent200 /\ Len(NamedRawItems) > 0) =>
    /\ Len(answer.items) = Len(NamedRawItems)
    /\ \A i \in 1..Len(answer.items) :
         answer.items[i].name = NamedRawItems[i].name

UnnamedItemDropped ==
  /\ Sent200
  /\ Len(RawItems) = 2
  /\ RawItems[1].name = Str(<<>>)
  /\ RawItems[2].name = Str(<<"B">>)
  /\ Len(answer.items) = 1
  /\ answer.items[1].name = Str(<<"B">>)

\* imageSrc of the request body is a non-empty string.
ImageSrcGiven == body.t = "str" /\ body.s # <<>>

\* C10: the upstream is called at most once and only after the method, the
\* API key and imageSrc passed their checks in that order; a failed check is
\* answered 405, 500 or 400 without an upstream call; exactly one response is
\* sent on every path, and 200 only after the upstream answered ok and both
\* JSON parses succeeded.
OneCallOneResponse ==
  /\ fetchCalls <= 1
  /\ fetchCalls = 1 => (method = "POST" /\ apiKey /\ ImageSrcGiven)
  /\ Len(res) = IF Answered THEN 1 ELSE 0
  /\ (Answered /\ method # "POST") => (res[1].status = 405 /\ fetchCalls = 0)
  /\ (Answered /\ method = "POST" /\ ~apiKey) =>
       (res[1].status = 500 /\ fetchCalls = 0)
  /\ (Answered /\ method = "POST" /\ apiKey /\ ~ImageSrcGiven) =>
       (res[1].status = 400 /\ fetchCalls = 0)
  /\ (Answered /\ method = "POST" /\ apiKey /\ ImageSrcGiven) => fetchCalls = 1
  /\ Sent200 =>
       /\ fetchCalls = 1
       /\ Ok(response.status)
       /\ response.text.isJson
       /\ json = response.text
       /\ content.isJson
       /\ data = content.value

ReceiptAnswered ==
  /\ Sent200
  /\ fetchCalls = 1
  /\ data.t = "object"
=============================================================================
